---- MODULE Spec2Model ----
(***************************************************************************)
(* Landmark-driven overlay pipeline of the jewellery AR mirror frontend:   *)
(*   - LandmarkWebSocket (frontend/src/services/websocket.js): the         *)
(*     streaming client with exponential-backoff reconnection;             *)
(*   - App (frontend/src/App.jsx): the observers of the client's events;   *)
(*   - AROverlay (frontend/src/components/AROverlay.jsx): the effect that  *)
(*     derives visibility and poses from the stored landmarks.             *)
(* The browser's WebSocket, its timers and React's scheduling of effects   *)
(* are the environment: they decide when a handler runs, never what it     *)
(* does.                                                                   *)
(***************************************************************************)
EXTENDS Integers, Sequences, FiniteSets, TLC

----------------------------------------------------------------------------
(* Bounds of the model *)

\* sockets the client may create in one run of Spec
MaxSockets == 7
\* explicit connect() calls by the application in one run of Spec
MaxConnectCalls == 2
\* sockets the client may create in one run of SpecOverlay
OverlaySockets == 2
\* connections the transport may open in one run of SpecRetry: the first ones
RetryOpens == 2
\* registrations the listener arrays may hold together in one run of SpecListeners
MaxListeners == 3

----------------------------------------------------------------------------
(* Program constants *)

maxReconnectAttempts == 5
\* App calls ws.connect() once, when it mounts
AppConnectCalls == 1
BaseDelay == 1000
DelayCap == 30000

\* JavaScript null / undefined (both falsy; the code never tells them apart)
Null == [k |-> "null"]

\* a string value (strings travel boxed so that they compare with Null)
Str(s) == [k |-> "str", s |-> s]

\* if (v), for a value that is absent or a string: the empty string is falsy
Truthy(v) == v # Null /\ v # Str("")

----------------------------------------------------------------------------
(* Exact rationals <<numerator, denominator>>, denominator > 0, reduced *)

Abs(n) == IF n < 0 THEN -n ELSE n

RECURSIVE Gcd(_, _)
Gcd(a, b) == IF b = 0 THEN a ELSE Gcd(b, a % b)

Rat(n, d) ==
    LET s == IF d < 0 THEN -1 ELSE 1
        g == Gcd(Abs(n), Abs(d))
    IN  <<(s * n) \div g, (s * d) \div g>>

----------------------------------------------------------------------------
(* Inbound payloads *)

\* a landmark point, coordinates in tenths of the normalised image space
Pt(x, y, z) == [k |-> "pt", x |-> x, y |-> y, z |-> z]

\* face rotation, angles in hundredths of a radian
Rot(p, y, r) == [k |-> "rot", pitch |-> p, yaw |-> y, roll |-> r]

Lm(l, r, rot) == [k |-> "lm", left_ear |-> l, right_ear |-> r, face_rotation |-> rot]

Frame(lm, fps, fd, err) ==
    [k |-> "frame", landmarks |-> lm, fps |-> fps, face_detected |-> fd, error |-> err]

\* the text of a message: either not JSON at all, or the JSON text of a value
Malformed == [k |-> "text", json |-> FALSE, value |-> Null]
Json(v) == [k |-> "text", json |-> TRUE, value |-> v]

LeftA == Pt(3, 4, 1)
RightA == Pt(7, 4, 1)
LeftB == Pt(2, 5, 0)
RightB == Pt(8, 5, 0)
RotA == Rot(20, 10, 4)
RotB == Rot(-10, 30, -6)

BothA == Lm(LeftA, RightA, Null)
BothARot == Lm(LeftA, RightA, RotA)

\* the landmarks of the messages delivered: every shape the effect tells apart
OverlayLandmarks ==
    { Null,
      Lm(LeftA, Null, RotA),
      Lm(Null, RightA, Null),
      BothA,
      BothARot,
      Lm(LeftB, RightB, RotB) }

\* the messages delivered: text that is not JSON, the JSON text null, frames
\* with a face, frames without, and frames that report an error
Messages ==
    { Malformed, Json(Null) }
    \cup { Json(Frame(lm, 30, TRUE, Null)) : lm \in OverlayLandmarks }
    \cup { Json(Frame(lm, 0, FALSE, Null)) : lm \in {Null, BothA} }
    \cup { Json(Frame(lm, 0, FALSE, Str("camera error"))) : lm \in {Null, Lm(LeftA, Null, Null)} }
    \cup { Json(Frame(Null, 0, FALSE, Str(""))) }

----------------------------------------------------------------------------
\* JSON.parse: throws on text that is not JSON, returns the value otherwise
JSONParse(text) ==
    IF text.json THEN [ok |-> TRUE, value |-> text.value]
    ELSE [ok |-> FALSE, value |-> Null]

----------------------------------------------------------------------------
(* State *)

VARIABLES
    ws,                 \* this.ws: 0 is null, otherwise the socket it refers to
    readyState,         \* readyState of every socket created so far
    reconnectAttempts,  \* this.reconnectAttempts
    reconnectDelay,     \* this.reconnectDelay
    timers,             \* delays of the pending setTimeout(() => this.connect())
    app,                \* the useState values of App
    overlay,            \* the useState values of AROverlay
    effectPending,      \* AROverlay's effect is due: [landmarks, videoSize] changed
    emitted,            \* events emitted by the last step, in order
    last,               \* the last step
    connectCalls,       \* explicit connect() calls so far
    closesSinceOpen,    \* closes since the last open (or since construction)
    schedLog,           \* delays scheduled since the last open (or construction)
    maxSinceOpen,       \* maxReconnectAttemptsReached events since the last open
    discSinceOpen,      \* disconnect() set the counter since the last open
    sinceDisconnect,    \* disconnect() was called, and connect() not since
    sinceMax,           \* 1: maxReconnectAttemptsReached was emitted and connect()
                        \* not called since; 2: connect() was called after it and
                        \* no connection has opened since; 0 otherwise
    sawMalformed,       \* sockets that delivered a message that is not JSON
    lastFrame,          \* the value of the last message that parsed
    rotationSeen,       \* 0: the effect has run on no landmarks that carry
                        \* face_rotation; 1: it has, and has taken none; 2: it
                        \* has taken the face_rotation of some landmarks
    selectedJewelry,    \* the descriptor selected, the selectedJewelry of AROverlay
    modelError,         \* the modelError of the AROverlay that loads models
    assets,             \* useGLTF's cache: the state of the load of every model
    sinceError,         \* effect runs that left the overlay Visible since
                        \* modelError was set, counted up to 2
    sample,             \* a landmark point and a video size to transform
    samplePosition,     \* the position computed for the sample
    listeners,          \* this.listeners: the callbacks of every event, in the
                        \* order on() pushed them
    emitting,           \* the emit() in progress: its event, its data, the array
                        \* its forEach iterates and the index it has reached
    invoked             \* the callbacks called by the emit() in progress, or by
                        \* the last one, in order

clientVars == <<ws, readyState, reconnectAttempts, reconnectDelay, timers>>
clientHist == <<connectCalls, closesSinceOpen, schedLog, maxSinceOpen, discSinceOpen,
                sinceDisconnect, sinceMax, sawMalformed, lastFrame>>
histVars == <<clientHist, rotationSeen>>
provVars == <<selectedJewelry, modelError, assets, sinceError>>
transformVars == <<sample, samplePosition>>
listenerVars == <<listeners, emitting, invoked>>
vars == <<clientVars, app, overlay, effectPending, emitted, last, histVars, provVars,
          transformVars, listenerVars>>

\* sockets are numbered in the order new WebSocket(url) created them
Sockets == DOMAIN readyState
Live == { s \in Sockets : readyState[s] \in {"connecting", "open", "closing"} }

CannotConnect ==
    Str("Cannot connect to backend server. Please ensure the backend is running on http://localhost:8000")

----------------------------------------------------------------------------
(* Events and App's observers *)

\* one emit(event, data), with the client's fields as an observer reads them
\* during the call
Event(event, status, payload, attempts, delay, pending) ==
    [event |-> event, status |-> status, payload |-> payload,
     attempts |-> attempts, delay |-> delay, pending |-> pending]

\* the listener dropping the stored landmarks when the connection is lost
OnConnectedDropsLandmarks(a, status) ==
    [a EXCEPT !.isConnected = status,
              !.backendError = IF status THEN Null ELSE @,
              !.landmarks = IF status THEN @ ELSE Null]

\* ws.on('connected', ...)
OnConnected(a, status) ==
    [a EXCEPT !.isConnected = status,
              !.backendError = IF status THEN Null ELSE @]

\* the listener clearing the landmarks on a frame that reports an error
OnLandmarksErrorClears(a, data) ==
    IF data = Null THEN a
    ELSE IF Truthy(data.error)
         THEN [a EXCEPT !.backendError = data.error, !.landmarks = Null]
    ELSE [a EXCEPT !.landmarks = data.landmarks,
                   !.fps = data.fps,
                   !.faceDetected = data.face_detected,
                   !.backendError = Null]

\* the listener storing data.landmarks || the landmarks it had
OnLandmarksKeepsLast(a, data) ==
    IF data = Null THEN a
    ELSE IF Truthy(data.error) THEN [a EXCEPT !.backendError = data.error]
    ELSE [a EXCEPT !.landmarks = IF data.landmarks = Null THEN @ ELSE data.landmarks,
                   !.fps = data.fps,
                   !.faceDetected = data.face_detected,
                   !.backendError = Null]

\* ws.on('landmarks', ...); reading data.error of null throws, and emit
\* catches what a listener throws. A field that is absent, null, 0 or false
\* is stored as Null, 0 or FALSE: data.landmarks || null, data.fps || 0,
\* data.face_detected || false
OnLandmarks(a, data) ==
    IF data = Null THEN a
    ELSE IF Truthy(data.error) THEN [a EXCEPT !.backendError = data.error]
    ELSE [a EXCEPT !.landmarks = data.landmarks,
                   !.fps = data.fps,
                   !.faceDetected = data.face_detected,
                   !.backendError = Null]

\* ws.on('maxReconnectAttemptsReached', ...)
OnMaxReached(a) == [a EXCEPT !.backendError = CannotConnect]

\* emit with an error listener that clears the reported error
DeliverErrorClears(a, e) ==
    CASE e.event = "connected" -> OnConnected(a, e.status)
      [] e.event = "landmarks" -> OnLandmarks(a, e.payload)
      [] e.event = "maxReconnectAttemptsReached" -> OnMaxReached(a)
      [] OTHER -> [a EXCEPT !.backendError = Null]

\* emit: the listeners App registered for the event, run on App's state
Deliver(a, e) ==
    CASE e.event = "connected" -> OnConnected(a, e.status)
      [] e.event = "landmarks" -> OnLandmarks(a, e.payload)
      [] e.event = "maxReconnectAttemptsReached" -> OnMaxReached(a)
      [] OTHER -> a

RECURSIVE DeliverAll(_, _)
DeliverAll(a, es) ==
    IF es = <<>> THEN a ELSE DeliverAll(Deliver(a, Head(es)), Tail(es))

\* the effect of AROverlay runs again when landmarks or videoSize is another
\* object than at the last render (Object.is); null stays null
DepsChanged(old, new) == ~(old = Null /\ new = Null)

\* a step that emits es: the observers run, and the effect becomes due when
\* they stored new landmarks
Emit(es) ==
    /\ emitted' = es
    /\ app' = DeliverAll(app, es)
    /\ effectPending' =
         (effectPending \/
            \E i \in 1 .. Len(es) :
               /\ es[i].event = "landmarks"
               /\ es[i].payload # Null
               /\ ~Truthy(es[i].payload.error)
               /\ DepsChanged(app.landmarks, es[i].payload.landmarks))

\* the step taken: the handler, its socket, its argument, and the counter it
\* found
Step(op, sock, arg) ==
    last' = [op |-> op, sock |-> sock, arg |-> arg, attempts |-> reconnectAttempts]

----------------------------------------------------------------------------
(* Coordinate transform and the effect of AROverlay *)

\* videoSize ? videoSize.width / videoSize.height : 16 / 9
Aspect(videoSize) ==
    IF videoSize # Null THEN Rat(videoSize.width, videoSize.height) ELSE Rat(16, 9)

\* the transform without the flip of y
ToRenderSpaceYDown(p, aspect) ==
    << Rat(-(p.x * 2 - 10) * aspect[1], 10 * aspect[2]),
       Rat(p.y * 2 - 10, 10),
       Rat(p.z * 2, 10) >>

\* the transform without the mirroring of x
ToRenderSpaceUnmirrored(p, aspect) ==
    << Rat((p.x * 2 - 10) * aspect[1], 10 * aspect[2]),
       Rat(-(p.y * 2 - 10), 10),
       Rat(p.z * 2, 10) >>

\* [-(p.x * 2 - 1) * aspect, -(p.y * 2 - 1), p.z * 2], p in tenths
ToRenderSpace(p, aspect) ==
    << Rat(-(p.x * 2 - 10) * aspect[1], 10 * aspect[2]),
       Rat(-(p.y * 2 - 10), 10),
       Rat(p.z * 2, 10) >>

\* !landmarks || !landmarks.left_ear || !landmarks.right_ear
LacksTarget(lm) == lm = Null \/ lm.left_ear = Null \/ lm.right_ear = Null

\* the effect reaches its if (landmarks.face_rotation) and finds one
TakesRotation(lm) == ~LacksTarget(lm) /\ lm.face_rotation # Null

\* rotationSeen after a run of the effect on landmarks lm
SeenAfter(seen, lm) ==
    IF TakesRotation(lm) THEN 2
    ELSE IF seen = 0 /\ lm # Null /\ lm.face_rotation # Null THEN 1
    ELSE seen

\* the effect snapping the rotation to zero when the frame carries none
EffectZeroesRotation(o, lm, videoSize) ==
    IF LacksTarget(lm) THEN [o EXCEPT !.isVisible = FALSE]
    ELSE [o EXCEPT
            !.isVisible = TRUE,
            !.leftEarPos = ToRenderSpace(lm.left_ear, Aspect(videoSize)),
            !.rightEarPos = ToRenderSpace(lm.right_ear, Aspect(videoSize)),
            !.faceRotation =
                IF lm.face_rotation # Null
                THEN <<lm.face_rotation.pitch, lm.face_rotation.yaw, lm.face_rotation.roll>>
                ELSE <<0, 0, 0>>]

\* the effect taking the face_rotation of landmarks that lack a target
EffectTakesRotationWhenHidden(o, lm, videoSize) ==
    IF LacksTarget(lm)
    THEN [o EXCEPT
            !.isVisible = FALSE,
            !.faceRotation =
                IF lm # Null /\ lm.face_rotation # Null
                THEN <<lm.face_rotation.pitch, lm.face_rotation.yaw, lm.face_rotation.roll>>
                ELSE @]
    ELSE [o EXCEPT
            !.isVisible = TRUE,
            !.leftEarPos = ToRenderSpace(lm.left_ear, Aspect(videoSize)),
            !.rightEarPos = ToRenderSpace(lm.right_ear, Aspect(videoSize)),
            !.faceRotation =
                IF lm.face_rotation # Null
                THEN <<lm.face_rotation.pitch, lm.face_rotation.yaw, lm.face_rotation.roll>>
                ELSE @]

\* the effect without its setIsVisible(false)
EffectNeverHides(o, lm, videoSize) ==
    IF LacksTarget(lm) THEN o
    ELSE [o EXCEPT
            !.isVisible = TRUE,
            !.leftEarPos = ToRenderSpace(lm.left_ear, Aspect(videoSize)),
            !.rightEarPos = ToRenderSpace(lm.right_ear, Aspect(videoSize)),
            !.faceRotation =
                IF lm.face_rotation # Null
                THEN <<lm.face_rotation.pitch, lm.face_rotation.yaw, lm.face_rotation.roll>>
                ELSE @]

\* the body of useEffect(() => {...}, [landmarks, videoSize])
Effect(o, lm, videoSize) ==
    IF LacksTarget(lm) THEN [o EXCEPT !.isVisible = FALSE]
    ELSE [o EXCEPT
            !.isVisible = TRUE,
            !.leftEarPos = ToRenderSpace(lm.left_ear, Aspect(videoSize)),
            !.rightEarPos = ToRenderSpace(lm.right_ear, Aspect(videoSize)),
            !.faceRotation =
                IF lm.face_rotation # Null
                THEN <<lm.face_rotation.pitch, lm.face_rotation.yaw, lm.face_rotation.roll>>
                ELSE @]

----------------------------------------------------------------------------
(* What AROverlay renders *)

\* the angle k * pi + r, r in hundredths of a radian
Angle(k, r) == [pi |-> k, rad |-> r]

\* [faceRotation[0] * 0.5, faceRotation[1] * 0.5, faceRotation[2]]
LeftRotation(rot) ==
    <<Angle(0, Rat(rot[1], 2)), Angle(0, Rat(rot[2], 2)), Angle(0, Rat(rot[3], 1))>>

\* the right earring given the rotation of the left one
RightRotationUnmirrored(rot) ==
    <<Angle(0, Rat(rot[1], 2)), Angle(0, Rat(rot[2], 2)), Angle(0, Rat(rot[3], 1))>>

\* [faceRotation[0] * 0.5, Math.PI + faceRotation[1] * 0.5, -faceRotation[2]]
RightRotation(rot) ==
    <<Angle(0, Rat(rot[1], 2)), Angle(1, Rat(rot[2], 2)), Angle(0, Rat(-rot[3], 1))>>

\* scale={1.5}
SimpleScale == Rat(3, 2)

\* the earrings AROverlay returns: {isVisible && (<>left, right</>)}
Render(o) ==
    IF o.isVisible
    THEN << [target |-> "left_ear", position |-> o.leftEarPos,
             rotation |-> LeftRotation(o.faceRotation), scale |-> SimpleScale],
            [target |-> "right_ear", position |-> o.rightEarPos,
             rotation |-> RightRotation(o.faceRotation), scale |-> SimpleScale] >>
    ELSE <<>>

----------------------------------------------------------------------------
(* The client's handlers *)

Min(a, b) == IF a < b THEN a ELSE b

\* a backoff that grows by the base delay instead of doubling
NextDelayLinear(d) == Min(d + BaseDelay, DelayCap)

\* a backoff that doubles without the cap
NextDelayUncapped(d) == d * 2

\* Math.min(this.reconnectDelay * 2, 30000)
NextDelay(d) == Min(d * 2, DelayCap)

\* the comparison off by one
MayRetryInclusive(attempts) == attempts <= maxReconnectAttempts

\* this.reconnectAttempts < this.maxReconnectAttempts
MayRetry(attempts) == attempts < maxReconnectAttempts

\* ws.close(): a socket that is connecting or open starts closing; on a socket
\* that is closing or closed it does nothing
CloseSocket(rs, s) ==
    IF rs[s] \in {"connecting", "open"} THEN [rs EXCEPT ![s] = "closing"] ELSE rs

Snapshot(event, status, payload) ==
    Event(event, status, payload, reconnectAttempts, reconnectDelay, Len(timers))

\* onopen emitting before it resets the counter and the delay
OpenEventsBeforeReset == <<Snapshot("connected", TRUE, Null)>>

\* the events ws.onopen emits, after it has reset the counter and the delay
OpenEvents == <<Event("connected", TRUE, Null, 0, BaseDelay, Len(timers))>>

\* onclose emitting connected(false) last, after it has scheduled or given up
CloseEventsConnectedLast ==
    IF MayRetry(reconnectAttempts)
    THEN <<Event("connected", FALSE, Null, reconnectAttempts + 1,
                 NextDelay(reconnectDelay), Len(timers) + 1)>>
    ELSE <<Snapshot("maxReconnectAttemptsReached", TRUE, Null),
           Snapshot("connected", FALSE, Null)>>

\* onclose giving up without a word once the budget is used up
CloseEventsSilent == <<Snapshot("connected", FALSE, Null)>>

\* the events ws.onclose emits
CloseEvents ==
    IF MayRetry(reconnectAttempts)
    THEN <<Snapshot("connected", FALSE, Null)>>
    ELSE <<Snapshot("connected", FALSE, Null),
           Snapshot("maxReconnectAttemptsReached", TRUE, Null)>>

\* onmessage reporting a parse failure to the observers of 'error'
MessageEventsReportError(text) ==
    IF JSONParse(text).ok
    THEN <<Snapshot("landmarks", TRUE, JSONParse(text).value)>>
    ELSE <<Snapshot("error", TRUE, Null)>>

\* the events ws.onmessage emits for a message text
MessageEvents(text) ==
    IF JSONParse(text).ok
    THEN <<Snapshot("landmarks", TRUE, JSONParse(text).value)>>
    ELSE <<>>

\* the events ws.onerror emits
ErrorEvents == <<Snapshot("error", TRUE, Null)>>

\* a connect() whose catch reports the failure as a lost connection
ConnectBodyReportsClose(maxSockets) ==
    \/ /\ Len(readyState) < maxSockets
       /\ readyState' = Append(readyState, "connecting")
       /\ ws' = Len(readyState) + 1
       /\ Emit(<<>>)
    \/ /\ UNCHANGED <<ws, readyState>>
       /\ Emit(<<Snapshot("connected", FALSE, Null)>> \o ErrorEvents)

\* the body of connect(): new WebSocket(url) either returns a socket, which
\* this.ws then refers to, or throws, which the catch reports as an error
ConnectBody(maxSockets) ==
    \/ /\ Len(readyState) < maxSockets
       /\ readyState' = Append(readyState, "connecting")
       /\ ws' = Len(readyState) + 1
       /\ Emit(<<>>)
    \/ /\ UNCHANGED <<ws, readyState>>
       /\ Emit(ErrorEvents)

\* a connect() that starts a fresh budget: counter 0, delay 1000
ConnectResets(maxSockets, maxCalls) ==
    /\ connectCalls < maxCalls
    /\ ConnectBody(maxSockets)
    /\ reconnectAttempts' = 0
    /\ reconnectDelay' = BaseDelay
    /\ connectCalls' = connectCalls + 1
    /\ sinceDisconnect' = FALSE
    /\ sinceMax' = IF sinceMax = 1 THEN 2 ELSE sinceMax
    /\ Step("connect", 0, Null)
    /\ UNCHANGED <<timers, overlay, provVars, transformVars, listenerVars,
                   closesSinceOpen, schedLog, maxSinceOpen, discSinceOpen,
                   sawMalformed, lastFrame, rotationSeen>>

\* the application calls connect()
Connect(maxSockets, maxCalls) ==
    /\ connectCalls < maxCalls
    /\ ConnectBody(maxSockets)
    /\ connectCalls' = connectCalls + 1
    /\ sinceDisconnect' = FALSE
    /\ sinceMax' = IF sinceMax = 1 THEN 2 ELSE sinceMax
    /\ Step("connect", 0, Null)
    /\ UNCHANGED <<reconnectAttempts, reconnectDelay, timers, overlay, provVars, transformVars, listenerVars,
                   closesSinceOpen, schedLog, maxSinceOpen, discSinceOpen,
                   sawMalformed, lastFrame, rotationSeen>>

\* a reconnect timer fires: setTimeout(() => { this.connect(); }, delay)
FireTimer(i, maxSockets) ==
    /\ i \in 1 .. Len(timers)
    /\ timers' = SubSeq(timers, 1, i - 1) \o SubSeq(timers, i + 1, Len(timers))
    /\ ConnectBody(maxSockets)
    /\ Step("timer", 0, Null)
    /\ UNCHANGED <<reconnectAttempts, reconnectDelay, overlay, provVars, transformVars, listenerVars, histVars>>

\* ws.onopen of socket s
OnOpen(s) ==
    /\ readyState[s] = "connecting"
    /\ readyState' = [readyState EXCEPT ![s] = "open"]
    /\ reconnectAttempts' = 0
    /\ reconnectDelay' = BaseDelay
    /\ Emit(OpenEvents)
    /\ Step("open", s, Null)
    /\ closesSinceOpen' = 0
    /\ schedLog' = <<>>
    /\ maxSinceOpen' = 0
    /\ discSinceOpen' = FALSE
    /\ sinceMax' = 0
    /\ UNCHANGED <<ws, timers, overlay, provVars, transformVars, listenerVars, connectCalls, sinceDisconnect,
                   sawMalformed, lastFrame, rotationSeen>>

\* ws.onmessage of socket s, for a message with the given text
OnMessage(s, text) ==
    /\ readyState[s] = "open"
    /\ Emit(MessageEvents(text))
    /\ Step("message", s, text)
    /\ sawMalformed' = IF JSONParse(text).ok THEN sawMalformed ELSE sawMalformed \cup {s}
    /\ lastFrame' = IF JSONParse(text).ok THEN JSONParse(text).value ELSE lastFrame
    /\ UNCHANGED <<clientVars, overlay, provVars, transformVars, listenerVars, connectCalls, closesSinceOpen, schedLog,
                   maxSinceOpen, discSinceOpen, sinceDisconnect, sinceMax, rotationSeen>>

\* onerror giving up on reconnection
OnErrorGivesUp(s) ==
    /\ s \in Live
    /\ Emit(ErrorEvents)
    /\ reconnectAttempts' = maxReconnectAttempts
    /\ Step("error", s, Null)
    /\ UNCHANGED <<ws, readyState, reconnectDelay, timers, overlay, provVars, transformVars, listenerVars, histVars>>

\* ws.onerror of socket s
OnError(s) ==
    /\ s \in Live
    /\ Emit(ErrorEvents)
    /\ Step("error", s, Null)
    /\ UNCHANGED <<clientVars, overlay, provVars, transformVars, listenerVars, histVars>>

\* ws.onclose of socket s
OnClose(s) ==
    /\ s \in Live
    /\ readyState' = [readyState EXCEPT ![s] = "closed"]
    /\ Emit(CloseEvents)
    /\ IF MayRetry(reconnectAttempts)
       THEN /\ reconnectAttempts' = reconnectAttempts + 1
            /\ timers' = Append(timers, reconnectDelay)
            /\ reconnectDelay' = NextDelay(reconnectDelay)
            /\ schedLog' = Append(schedLog, reconnectDelay)
            /\ UNCHANGED <<maxSinceOpen, sinceMax>>
       ELSE /\ maxSinceOpen' = maxSinceOpen + 1
            /\ sinceMax' = 1
            /\ UNCHANGED <<reconnectAttempts, timers, reconnectDelay, schedLog>>
    /\ closesSinceOpen' = closesSinceOpen + 1
    /\ Step("close", s, Null)
    /\ UNCHANGED <<ws, overlay, provVars, transformVars, listenerVars, connectCalls, discSinceOpen, sinceDisconnect,
                   sawMalformed, lastFrame, rotationSeen>>

\* disconnect() setting the counter outside its if (this.ws)
DisconnectUnguarded ==
    /\ reconnectAttempts' = maxReconnectAttempts
    /\ IF ws # 0
       THEN /\ readyState' = CloseSocket(readyState, ws)
            /\ ws' = 0
            /\ discSinceOpen' = TRUE
       ELSE UNCHANGED <<readyState, ws, discSinceOpen>>
    /\ Emit(<<>>)
    /\ sinceDisconnect' = TRUE
    /\ Step("disconnect", ws, Null)
    /\ UNCHANGED <<reconnectDelay, timers, overlay, provVars, transformVars, listenerVars, connectCalls, closesSinceOpen,
                   schedLog, maxSinceOpen, sinceMax, sawMalformed, lastFrame, rotationSeen>>

\* the application calls disconnect()
Disconnect ==
    /\ IF ws # 0
       THEN /\ reconnectAttempts' = maxReconnectAttempts
            /\ readyState' = CloseSocket(readyState, ws)
            /\ ws' = 0
            /\ discSinceOpen' = TRUE
       ELSE UNCHANGED <<reconnectAttempts, readyState, ws, discSinceOpen>>
    /\ Emit(<<>>)
    /\ sinceDisconnect' = TRUE
    /\ Step("disconnect", ws, Null)
    /\ UNCHANGED <<reconnectDelay, timers, overlay, provVars, transformVars, listenerVars, connectCalls, closesSinceOpen,
                   schedLog, maxSinceOpen, sinceMax, sawMalformed, lastFrame, rotationSeen>>

----------------------------------------------------------------------------
(* The environment of AROverlay *)

VideoSizes ==
    { [k |-> "size", width |-> 720, height |-> 720] }

\* the notification stored without the effect running again
VideoReadyWithoutEffect(size) ==
    /\ app' = [app EXCEPT !.videoSize = size]
    /\ effectPending' = effectPending
    /\ emitted' = <<>>
    /\ Step("videoReady", 0, size)
    /\ UNCHANGED <<clientVars, overlay, provVars, transformVars, listenerVars, histVars>>

\* VideoFeed's onloadedmetadata calls handleVideoReady(size)
VideoReady(size) ==
    /\ app' = [app EXCEPT !.videoSize = size]
    /\ effectPending' = TRUE
    /\ emitted' = <<>>
    /\ Step("videoReady", 0, size)
    /\ UNCHANGED <<clientVars, overlay, provVars, transformVars, listenerVars, histVars>>

\* React runs AROverlay's effect with the props of the last render
RunEffect ==
    /\ effectPending
    /\ overlay' = Effect(overlay, app.landmarks, app.videoSize)
    /\ effectPending' = FALSE
    /\ emitted' = <<>>
    /\ Step("effect", 0, Null)
    /\ rotationSeen' = SeenAfter(rotationSeen, app.landmarks)
    /\ UNCHANGED <<clientVars, app, clientHist, provVars, transformVars, listenerVars>>

----------------------------------------------------------------------------
(* The AROverlay that loads models: descriptors, useGLTF and its render *)

\* an item of JewelrySelector, scale in tenths
Descriptor(id, modelPath, scale, color) ==
    [k |-> "jewelry", id |-> id, modelPath |-> modelPath, scale |-> scale,
     color |-> color]

GoldHoops == Descriptor(1, Str("/models/gold-hoop-earring.glb"), 15, Str("#FFD700"))
SilverStuds == Descriptor(2, Str("/models/silver-stud-earring.glb"), 12, Str("#C0C0C0"))

\* a descriptor that names no model, which AROverlay provides for
Unmodelled == Descriptor(5, Null, 13, Str("#B76E79"))

\* what selectedJewelry can be: nothing selected, or a descriptor
Selections == { Null, GoldHoops, SilverStuds, Unmodelled }

\* the models useGLTF can be asked for
ModelPaths == { j.modelPath : j \in { s \in Selections \ {Null} : s.modelPath # Null } }

\* selectedJewelry?.scale || 1.5, in tenths
DefaultScale == 15

\* selectedJewelry?.modelPath
ModelPath(j) == IF j = Null THEN Null ELSE j.modelPath

\* selectedJewelry?.scale || 1.5
JewelryScale(j) == IF j = Null \/ j.scale = 0 THEN DefaultScale ELSE j.scale

\* selectedJewelry?.color || '#FFD700'
JewelryColor(j) == IF j = Null \/ ~Truthy(j.color) THEN Str("#FFD700") ELSE j.color

\* useFallback without the recorded error
UseFallbackIgnoresError(j, err) == ~Truthy(ModelPath(j))

\* const useFallback = !modelPath || modelError
UseFallback(j, err) == ~Truthy(ModelPath(j)) \/ err

\* ProceduralEarring: a torus hoop and a sphere accent
ProceduralEarring(target, position, rotation, scale, color) ==
    [target |-> target, kind |-> "procedural", geometry |-> <<"torus", "sphere">>,
     requests |-> Null, position |-> position, rotation |-> rotation,
     scale |-> scale, color |-> color]

\* LoadingEarring: a wireframe sphere at the position
LoadingEarring(target, modelPath, position) ==
    [target |-> target, kind |-> "loading", geometry |-> <<"wireframe sphere">>,
     requests |-> modelPath, position |-> position, rotation |-> Null,
     scale |-> Null, color |-> Null]

\* ModelEarring: useGLTF(modelPath) suspends while the model loads, throws when
\* the load failed, and gives the scene otherwise
ModelEarring(target, modelPath, position, rotation, scale, cache) ==
    CASE cache[modelPath] = "loaded" ->
           [target |-> target, kind |-> "model", geometry |-> <<"scene">>,
            requests |-> modelPath, position |-> position, rotation |-> rotation,
            scale |-> scale, color |-> Null]
      [] cache[modelPath] = "failed" ->
           [target |-> target, kind |-> "throws", geometry |-> <<>>,
            requests |-> modelPath, position |-> Null, rotation |-> Null,
            scale |-> Null, color |-> Null]
      [] OTHER -> LoadingEarring(target, modelPath, position)

\* Earring: the procedural earring, or the model inside a Suspense whose
\* fallback is the loading earring
Earring(target, modelPath, position, rotation, scale, color, useFallback, cache) ==
    IF useFallback \/ ~Truthy(modelPath)
    THEN ProceduralEarring(target, position, rotation, scale, color)
    ELSE ModelEarring(target, modelPath, position, rotation, scale, cache)

\* the earrings the AROverlay that loads models returns
RenderModels(o, j, err, cache) ==
    IF o.isVisible
    THEN << Earring("left_ear", ModelPath(j), o.leftEarPos,
                    LeftRotation(o.faceRotation), JewelryScale(j), JewelryColor(j),
                    UseFallback(j, err), cache),
            Earring("right_ear", ModelPath(j), o.rightEarPos,
                    RightRotation(o.faceRotation), JewelryScale(j), JewelryColor(j),
                    UseFallback(j, err), cache) >>
    ELSE <<>>

\* the render calls useGLTF for the selected model
CallsUseGLTF(o, j, err) == o.isVisible /\ ~UseFallback(j, err)

\* a render whose error never reaches onError
CommitIgnoresError(o, j, cache) ==
    /\ assets' = IF CallsUseGLTF(o, j, modelError) /\ cache[ModelPath(j)] = "idle"
                 THEN [cache EXCEPT ![ModelPath(j)] = "loading"]
                 ELSE cache
    /\ modelError' = modelError

\* AROverlay renders state o with descriptor j over the cache: useGLTF starts
\* the load of a model it was not asked for before, and the error it throws
\* for a model that failed to load reaches onError, which sets modelError
Commit(o, j, cache) ==
    /\ assets' = IF CallsUseGLTF(o, j, modelError) /\ cache[ModelPath(j)] = "idle"
                 THEN [cache EXCEPT ![ModelPath(j)] = "loading"]
                 ELSE cache
    /\ modelError' =
         (modelError \/ (CallsUseGLTF(o, j, modelError) /\ cache[ModelPath(j)] = "failed"))

\* effect runs that left the overlay Visible since modelError was set (at most 2)
CountRender(o) ==
    sinceError' = IF ~modelError' THEN 0
                  ELSE IF ~modelError THEN 0
                  ELSE IF o.isVisible /\ sinceError < 2 THEN sinceError + 1
                  ELSE sinceError

\* the AROverlay that loads models is given descriptor j as its
\* selectedJewelry by the component that renders it, and renders
JewelrySelect(j) ==
    /\ selectedJewelry' = j
    /\ Commit(overlay, j, assets)
    /\ sinceError' = IF modelError' = modelError THEN sinceError ELSE 0
    /\ emitted' = <<>>
    /\ Step("select", 0, j)
    /\ UNCHANGED <<clientVars, app, overlay, effectPending, histVars, transformVars, listenerVars>>

\* the load of model p succeeds
AssetLoaded(p) ==
    /\ assets[p] = "loading"
    /\ assets' = [assets EXCEPT ![p] = "loaded"]
    /\ emitted' = <<>>
    /\ Step("loaded", 0, p)
    /\ UNCHANGED <<clientVars, app, overlay, effectPending, histVars, transformVars, listenerVars,
                   selectedJewelry, modelError, sinceError>>

\* the load of model p fails, and the earrings that wait for it render again
AssetFailed(p) ==
    /\ assets[p] = "loading"
    /\ Commit(overlay, selectedJewelry, [assets EXCEPT ![p] = "failed"])
    /\ sinceError' = IF modelError' = modelError THEN sinceError ELSE 0
    /\ emitted' = <<>>
    /\ Step("failed", 0, p)
    /\ UNCHANGED <<clientVars, app, overlay, effectPending, histVars, transformVars, listenerVars, selectedJewelry>>

\* React runs the effect of the AROverlay that loads models, and renders
RunEffectModels ==
    /\ effectPending
    /\ overlay' = Effect(overlay, app.landmarks, app.videoSize)
    /\ effectPending' = FALSE
    /\ Commit(overlay', selectedJewelry, assets)
    /\ CountRender(overlay')
    /\ emitted' = <<>>
    /\ Step("effect", 0, Null)
    /\ rotationSeen' = SeenAfter(rotationSeen, app.landmarks)
    /\ UNCHANGED <<clientVars, app, clientHist, transformVars, listenerVars, selectedJewelry>>

----------------------------------------------------------------------------
(* The descriptor App selects and the props it gives AROverlay *)

\* <AROverlay landmarks={landmarks} videoSize={videoSize} />: the props of the
\* overlay as App renders it; a prop that is not passed reads as undefined
OverlayProps(a) ==
    [landmarks |-> a.landmarks, videoSize |-> a.videoSize, selectedJewelry |-> Null]

\* handleJewelrySelect(jewelry): App stores the descriptor and renders again
HandleJewelrySelect(j) ==
    /\ app' = [app EXCEPT !.selectedJewelry = j]
    /\ selectedJewelry' = OverlayProps(app').selectedJewelry
    /\ emitted' = <<>>
    /\ Step("select", 0, j)
    /\ UNCHANGED <<clientVars, overlay, effectPending, histVars, transformVars, listenerVars,
                   modelError, assets, sinceError>>

----------------------------------------------------------------------------
(* The listener registry of LandmarkWebSocket: on, off, emit *)

\* the events callbacks are registered for here, and the data emitted
ListenerEvents == {"landmarks", "error"}
Payloads == {1, 2}

\* the callbacks: f returns, g throws
Callbacks == {"f", "g"}
Throws(callback) == callback = "g"

\* this.listeners = {}: no event has an array
NoListeners == [e \in ListenerEvents |-> [registered |-> FALSE, cbs |-> <<>>]]

\* no emit() is running
NotEmitting == [active |-> FALSE, event |-> "", data |-> 0, cbs |-> <<>>, idx |-> 0]

\* the registrations in all the arrays
Registrations == Len(listeners["landmarks"].cbs) + Len(listeners["error"].cbs)

\* the number of times callback stands in cbs
RECURSIVE Count(_, _)
Count(cbs, callback) ==
    IF cbs = <<>> THEN 0
    ELSE (IF Head(cbs) = callback THEN 1 ELSE 0) + Count(Tail(cbs), callback)

\* an off() that removes the first registration only
RECURSIVE FilterFirst(_, _)
FilterFirst(cbs, callback) ==
    IF cbs = <<>> THEN <<>>
    ELSE IF Head(cbs) = callback THEN Tail(cbs)
    ELSE <<Head(cbs)>> \o FilterFirst(Tail(cbs), callback)

\* this.listeners[event].filter(cb => cb !== callback)
Filter(cbs, callback) == SelectSeq(cbs, LAMBDA cb : cb # callback)

\* an emit() whose forEach has no try around the callback: the exception of a
\* callback leaves forEach and emit()
EmitAfterUncaught(em, callback) ==
    IF Throws(callback) THEN NotEmitting
    ELSE IF em.idx < Len(em.cbs) THEN [em EXCEPT !.idx = @ + 1]
    ELSE NotEmitting

\* emit() after a callback returned or threw: the catch logs, forEach goes on
\* to the next element of the array it started on, emit() returns after the last
EmitAfter(em, callback) ==
    IF em.idx < Len(em.cbs) THEN [em EXCEPT !.idx = @ + 1]
    ELSE NotEmitting

\* on(event, callback), called by the application or by a running callback
On(event, callback) ==
    /\ Registrations < MaxListeners
    /\ listeners' =
         [listeners EXCEPT ![event] =
             [registered |-> TRUE, cbs |-> Append(listeners[event].cbs, callback)]]
    /\ emitted' = <<>>
    /\ Step("on", 0, [event |-> event, callback |-> callback, found |-> 0])
    /\ UNCHANGED <<clientVars, app, overlay, effectPending, histVars, provVars,
                   transformVars, emitting, invoked>>

\* off(event, callback), called by the application or by a running callback
Off(event, callback) ==
    /\ listeners' =
         IF listeners[event].registered
         THEN [listeners EXCEPT ![event].cbs = Filter(@, callback)]
         ELSE listeners
    /\ emitted' = <<>>
    /\ Step("off", 0, [event |-> event, callback |-> callback,
                       found |-> Count(listeners[event].cbs, callback)])
    /\ UNCHANGED <<clientVars, app, overlay, effectPending, histVars, provVars,
                   transformVars, emitting, invoked>>

\* emit(event, data) up to the first callback: forEach takes the array the
\* event has now, and its length
EmitStart(event, data) ==
    /\ ~emitting.active
    /\ emitting' =
         IF listeners[event].registered /\ listeners[event].cbs # <<>>
         THEN [active |-> TRUE, event |-> event, data |-> data,
               cbs |-> listeners[event].cbs, idx |-> 1]
         ELSE NotEmitting
    /\ invoked' = <<>>
    /\ emitted' = <<>>
    /\ Step("emit", 0, [event |-> event, callback |-> "", found |-> data])
    /\ UNCHANGED <<clientVars, app, overlay, effectPending, histVars, provVars,
                   transformVars, listeners>>

\* forEach calls the next callback of its array with the data of emit()
EmitInvoke ==
    /\ emitting.active
    /\ LET callback == emitting.cbs[emitting.idx] IN
         /\ invoked' = Append(invoked, [callback |-> callback, data |-> emitting.data])
         /\ emitting' = EmitAfter(emitting, callback)
         /\ Step("invoke", 0, [event |-> emitting.event, callback |-> callback,
                               found |-> emitting.idx])
    /\ emitted' = <<>>
    /\ UNCHANGED <<clientVars, app, overlay, effectPending, histVars, provVars,
                   transformVars, listeners>>

----------------------------------------------------------------------------
(* Specifications *)

\* the useState values App starts with
InitialApp ==
    [landmarks |-> Null, fps |-> 0, isConnected |-> FALSE,
     videoSize |-> Null, faceDetected |-> FALSE, backendError |-> Null,
     selectedJewelry |-> Null]

\* the useState values AROverlay starts with
InitialOverlay ==
    [leftEarPos |-> <<Rat(0, 1), Rat(0, 1), Rat(-5, 1)>>,
     rightEarPos |-> <<Rat(0, 1), Rat(0, 1), Rat(-5, 1)>>,
     faceRotation |-> <<0, 0, 0>>,
     isVisible |-> FALSE]

\* the program after construction: the client, App and both overlays
InitProgram ==
    /\ ws = 0
    /\ readyState = <<>>
    /\ reconnectAttempts = 0
    /\ reconnectDelay = BaseDelay
    /\ timers = <<>>
    /\ app = InitialApp
    /\ overlay = InitialOverlay
    /\ effectPending = FALSE
    /\ emitted = <<>>
    /\ last = [op |-> "new", sock |-> 0, arg |-> Null, attempts |-> 0]
    /\ connectCalls = 0
    /\ closesSinceOpen = 0
    /\ schedLog = <<>>
    /\ maxSinceOpen = 0
    /\ discSinceOpen = FALSE
    /\ sinceDisconnect = FALSE
    /\ sinceMax = 0
    /\ sawMalformed = {}
    /\ lastFrame = Null
    /\ rotationSeen = 0
    /\ listeners = NoListeners
    /\ emitting = NotEmitting
    /\ invoked = <<>>
    /\ selectedJewelry = Null
    /\ modelError = FALSE
    /\ assets = [p \in ModelPaths |-> "idle"]
    /\ sinceError = 0

Init ==
    /\ InitProgram
    /\ sample = Null
    /\ samplePosition = Null

\* the streaming client and its observers under any interleaving of calls,
\* timers and transport events of a connection that carries no message
Next ==
    \/ Connect(MaxSockets, MaxConnectCalls)
    \/ Disconnect
    \/ \E i \in 1 .. Len(timers) : FireTimer(i, MaxSockets)
    \/ \E s \in Sockets : OnOpen(s)
    \/ \E s \in Sockets : OnClose(s)
    \/ \E s \in Sockets : OnError(s)

Spec == Init /\ [][Next]_vars

\* nothing of the client is in flight: no connection is live, no timer pending
Idle == Live = {} /\ timers = <<>>

\* the streaming client of an application that calls connect() only when the
\* client is idle
NextSerial ==
    \/ Idle /\ Connect(MaxSockets, MaxConnectCalls)
    \/ Disconnect
    \/ \E i \in 1 .. Len(timers) : FireTimer(i, MaxSockets)
    \/ \E s \in Sockets : OnOpen(s)
    \/ \E s \in Sockets : OnClose(s)
    \/ \E s \in Sockets : OnError(s)

SpecSerial == Init /\ [][NextSerial]_vars

\* the whole pipeline, messages and overlay included, over fewer connections
NextOverlay ==
    \/ Connect(OverlaySockets, AppConnectCalls)
    \/ Disconnect
    \/ \E i \in 1 .. Len(timers) : FireTimer(i, OverlaySockets)
    \/ \E s \in Sockets : OnOpen(s)
    \/ \E s \in Sockets : OnClose(s)
    \/ \E s \in Sockets : OnError(s)
    \/ \E s \in Sockets, text \in Messages : OnMessage(s, text)
    \/ \E size \in VideoSizes : VideoReady(size)
    \/ RunEffect

SpecOverlay == Init /\ [][NextOverlay]_vars

\* the frames delivered to the AROverlay that loads models
ModelMessages ==
    { Json(Frame(BothARot, 30, TRUE, Null)),
      Json(Frame(Lm(LeftB, RightB, Null), 30, TRUE, Null)),
      Json(Frame(Null, 0, FALSE, Null)) }

\* the AROverlay that loads models, given the selected descriptor, over one
\* connection that stays open
NextModels ==
    \/ Connect(OverlaySockets, AppConnectCalls)
    \/ \E s \in Sockets : OnOpen(s)
    \/ \E s \in Sockets, text \in ModelMessages : OnMessage(s, text)
    \/ \E j \in Selections : JewelrySelect(j)
    \/ \E p \in ModelPaths : AssetLoaded(p)
    \/ \E p \in ModelPaths : AssetFailed(p)
    \/ RunEffectModels

SpecModels == Init /\ [][NextModels]_vars

\* App as it renders the overlay: frames over one connection that stays open,
\* and the selection of descriptors
NextSelect ==
    \/ Connect(OverlaySockets, AppConnectCalls)
    \/ \E s \in Sockets : OnOpen(s)
    \/ \E s \in Sockets, text \in ModelMessages : OnMessage(s, text)
    \/ \E j \in Selections \ {Null} : HandleJewelrySelect(j)
    \/ RunEffect

SpecSelect == Init /\ [][NextSelect]_vars

\* the frames delivered in SpecReconnect: without a face, and with an error
ReconnectMessages ==
    { Json(Frame(Null, 0, FALSE, Null)),
      Json(Frame(Null, 0, FALSE, Str("camera error"))) }

\* the client and App's observers when connect() is called again only once
\* the client is idle, over connections that carry frames
NextReconnect ==
    \/ Idle /\ Connect(MaxSockets, MaxConnectCalls)
    \/ Disconnect
    \/ \E i \in 1 .. Len(timers) : FireTimer(i, MaxSockets)
    \/ \E s \in Sockets : OnOpen(s)
    \/ \E s \in Sockets : OnClose(s)
    \/ \E s \in Sockets : OnError(s)
    \/ \E s \in Sockets, text \in ReconnectMessages : OnMessage(s, text)

SpecReconnect == Init /\ [][NextReconnect]_vars

\* sockets one run of SpecRetry can create: one for every connect() of the
\* application, and the reconnects of one budget from the start and after
\* every open
RetrySockets == MaxConnectCalls + maxReconnectAttempts * (1 + RetryOpens)

\* a reconnect timer fires and new WebSocket(url) returns a socket: the
\* constructor throws on the url alone, and it took this url before
FireTimerCreates(i) ==
    /\ FireTimer(i, RetrySockets)
    /\ Len(readyState') = Len(readyState) + 1

\* the transport settles socket s, which is connecting or closing: it opens it
\* (one of the first RetryOpens connections) or closes it
Settle(s) ==
    /\ s \in Sockets
    /\ readyState[s] \in {"connecting", "closing"}
    /\ \/ s <= RetryOpens /\ OnOpen(s)
       \/ OnClose(s)

\* the retry loop: connect() and disconnect() at any time, timers, and a transport
\* that opens or closes the connections it starts and may drop an open one
\* (transport errors, which change nothing of the client, are left out)
NextRetry ==
    \/ Connect(RetrySockets, MaxConnectCalls)
    \/ Disconnect
    \/ \E i \in 1 .. Len(timers) : FireTimerCreates(i)
    \/ \E s \in Sockets : Settle(s)
    \/ \E s \in Sockets : readyState[s] = "open" /\ OnClose(s)

\* scheduled timers fire, and every connection started is opened or closed
FairRetry ==
    /\ WF_vars(\E i \in 1 .. Len(timers) : FireTimerCreates(i))
    /\ \A s \in 1 .. RetrySockets : WF_vars(Settle(s))

SpecRetry == Init /\ [][NextRetry]_vars /\ FairRetry

\* the points and video sizes transformed: x and y over the whole of [0, 1] in
\* tenths, depths before and behind, and video sizes unknown, square, wide
\* and tall
Samples ==
    { [point |-> Pt(x, y, z), videoSize |-> v] :
        x \in 0 .. 10, y \in 0 .. 10, z \in {-2, 0, 3},
        v \in { Null,
                [k |-> "size", width |-> 720, height |-> 720],
                [k |-> "size", width |-> 640, height |-> 480],
                [k |-> "size", width |-> 480, height |-> 640],
                [k |-> "size", width |-> 1920, height |-> 1080] } }

InitTransform ==
    /\ InitProgram
    /\ sample \in Samples
    /\ samplePosition = Null

\* the coordinate transform of the effect, applied to the sample
Transform ==
    /\ sample # Null
    /\ samplePosition = Null
    /\ samplePosition' = ToRenderSpace(sample.point, Aspect(sample.videoSize))
    /\ emitted' = <<>>
    /\ Step("transform", 0, Null)
    /\ UNCHANGED <<clientVars, app, overlay, effectPending, histVars, provVars, sample,
                   listenerVars>>

NextTransform == Transform

SpecTransform == InitTransform /\ [][NextTransform]_vars

\* the listener registry under any interleaving of on(), off() and emit(), the
\* calls made by a running callback included: they fall between two callbacks
\* of the forEach of the emit() that runs it
NextListeners ==
    \/ \E event \in ListenerEvents, callback \in Callbacks : On(event, callback)
    \/ \E event \in ListenerEvents, callback \in Callbacks : Off(event, callback)
    \/ \E event \in ListenerEvents, data \in Payloads : EmitStart(event, data)
    \/ EmitInvoke

SpecListeners == Init /\ [][NextListeners]_vars

----------------------------------------------------------------------------
(* Reconnection *)

BackoffDelays == <<1000, 2000, 4000, 8000, 16000>>

\* some event of es is connected(status)
EmitsConnected(es, status) ==
    \E i \in 1 .. Len(es) : es[i].event = "connected" /\ es[i].status = status

\* C1: from a fresh client or a successful open, as long as disconnect() is not
\* called, the n-th close without an open schedules a reconnect after the n-th
\* of 1000, 2000, 4000, 8000, 16000 ms and leaves the doubled delay (30000 after
\* the fifth); maxReconnectAttemptsReached is emitted only once all five
\* reconnects have been scheduled, by every close after them.
C1_BackoffSequence ==
    ~discSinceOpen =>
        /\ schedLog = SubSeq(BackoffDelays, 1, Min(closesSinceOpen, 5))
        /\ reconnectDelay =
             IF Len(schedLog) < 5 THEN BackoffDelays[Len(schedLog) + 1] ELSE 30000
        /\ maxSinceOpen = (IF closesSinceOpen > 5 THEN closesSinceOpen - 5 ELSE 0)

\* six closes in a row: five reconnects scheduled in order, then the event
C1_Witness ==
    /\ ~discSinceOpen
    /\ last.op = "close"
    /\ closesSinceOpen = 6
    /\ schedLog = BackoffDelays
    /\ reconnectDelay = 30000
    /\ maxSinceOpen = 1

\* C2, as stated: after five closes in a row without an open, exactly one
\* maxReconnectAttemptsReached has fired and at most five reconnects were
\* scheduled.
C2_FiveCloses ==
    (~discSinceOpen /\ closesSinceOpen = 5) =>
        (maxSinceOpen = 1 /\ Len(schedLog) <= 5)

\* C2, amended: the five closes schedule the five reconnects and emit nothing;
\* it is the sixth close in a row (the first connection and its five
\* reconnects) after which exactly one maxReconnectAttemptsReached has fired,
\* and it schedules no sixth reconnect.
C2_SixCloses ==
    ~discSinceOpen =>
        /\ closesSinceOpen = 5 => (maxSinceOpen = 0 /\ Len(schedLog) = 5)
        /\ closesSinceOpen = 6 => (maxSinceOpen = 1 /\ Len(schedLog) = 5)
        /\ Len(schedLog) <= 5

\* the sixth close has halted the loop: nothing is pending, nothing is live
C2_Witness ==
    /\ ~discSinceOpen
    /\ closesSinceOpen = 6
    /\ maxSinceOpen = 1
    /\ timers = <<>>
    /\ Live = {}
    /\ app.backendError = CannotConnect

\* C3: after disconnect(), until the application calls connect() again, no step
\* creates a connection and no step emits connected(true).
C3_DisconnectIsFinal ==
    [][(sinceDisconnect /\ last'.op # "connect") =>
          (Len(readyState') = Len(readyState) /\ ~EmitsConnected(emitted', TRUE))]_vars

\* C4: once maxReconnectAttemptsReached was emitted for an exhausted budget,
\* no step schedules a reconnect or creates a connection until the application
\* calls connect(); after that connect(), a close of a connection that
\* disconnect() did not cause schedules a reconnect again.
C4_RetryAfterExplicitConnect ==
    [][/\ (sinceMax = 1 /\ ~discSinceOpen /\ last'.op # "connect") =>
             (Len(timers') <= Len(timers) /\ Len(readyState') = Len(readyState))
       /\ (sinceMax = 2 /\ ~discSinceOpen /\ last'.op = "close") =>
             Len(timers') = Len(timers) + 1]_vars

\* C5: the state an open leaves, and the state its observers saw: counter 0,
\* delay 1000, exactly one event, connected(true), emitted after both resets.
C5_OpenResets ==
    last.op = "open" =>
        /\ reconnectAttempts = 0
        /\ reconnectDelay = 1000
        /\ Len(emitted) = 1
        /\ emitted[1].event = "connected"
        /\ emitted[1].status = TRUE
        /\ emitted[1].attempts = 0
        /\ emitted[1].delay = 1000
        /\ app.isConnected

\* an open that found the counter at its cap
C5_Witness ==
    /\ last.op = "open"
    /\ last.attempts = 5
    /\ reconnectAttempts = 0
    /\ app.isConnected

\* C6: a message that is not JSON emits nothing and changes nothing of the
\* client, of App or of the overlay, and its connection stays open; a message
\* that parses, on a connection that delivered such a message before, is
\* emitted as one landmarks event carrying the parsed value.
C6_MalformedSwallowed ==
    [][last'.op = "message" =>
          IF ~JSONParse(last'.arg).ok
          THEN /\ emitted' = <<>>
               /\ readyState'[last'.sock] = "open"
               /\ UNCHANGED <<clientVars, app, overlay, effectPending>>
          ELSE last'.sock \in sawMalformed =>
                 /\ Len(emitted') = 1
                 /\ emitted'[1].event = "landmarks"
                 /\ emitted'[1].payload = JSONParse(last'.arg).value]_vars

\* a frame delivered and stored on a connection that had swallowed a message
C6_Witness ==
    /\ last.op = "message"
    /\ last.sock \in sawMalformed
    /\ JSONParse(last.arg).ok
    /\ Len(emitted) = 1
    /\ emitted[1].event = "landmarks"
    /\ lastFrame # Null
    /\ lastFrame.error = Null
    /\ lastFrame.landmarks # Null
    /\ app.landmarks = lastFrame.landmarks

\* C7: a transport error emits one error event and leaves the counter, the
\* delay, the pending timers and every connection as they were.
C7_ErrorNotFatal ==
    [][last'.op = "error" =>
          /\ Len(emitted') = 1
          /\ emitted'[1].event = "error"
          /\ UNCHANGED <<reconnectAttempts, reconnectDelay, timers, readyState, ws>>]_vars

\* an error on a reconnect's connection, in the middle of the backoff
C7_Witness ==
    /\ last.op = "error"
    /\ readyState[last.sock] = "connecting"
    /\ reconnectAttempts \in 1 .. 4
    /\ timers # <<>>

\* C8: disconnect() always leaves this.ws null and emits nothing, and called
\* with this.ws null it changes nothing at all.
C8_DisconnectIdempotent ==
    [][last'.op = "disconnect" =>
          /\ ws' = 0
          /\ emitted' = <<>>
          /\ ws = 0 => UNCHANGED <<clientVars, app, overlay, effectPending>>]_vars

\* a second disconnect() of a client that had connected
C8_Witness ==
    /\ last.op = "disconnect"
    /\ last.sock = 0
    /\ Len(readyState) > 0
    /\ ws = 0
    /\ reconnectAttempts = maxReconnectAttempts

----------------------------------------------------------------------------
(* Visibility *)

Both(lm) == lm # Null /\ lm.left_ear # Null /\ lm.right_ear # Null
ExactlyOne(lm) == lm # Null /\ ((lm.left_ear = Null) # (lm.right_ear = Null))

\* C9: once the effect has run for the last frame received (frames with an
\* error field aside: App does not process them), a frame with landmarks null
\* or with face_detected false leaves the overlay Hidden.
C9_HiddenWithoutFace ==
    ( /\ lastFrame # Null
      /\ lastFrame.error = Null
      /\ ~effectPending
      /\ (lastFrame.landmarks = Null \/ ~lastFrame.face_detected) )
    => ~overlay.isVisible

\* C10, as stated: the overlay turns Visible only in a run of the effect on
\* landmarks with both targets, and once the effect has run for a last frame
\* that carries exactly one target the overlay is Hidden.
C10_OneTargetHides ==
    [][/\ (~overlay.isVisible /\ overlay'.isVisible) =>
             (last'.op = "effect" /\ Both(app.landmarks))
       /\ (lastFrame' # Null /\ ExactlyOne(lastFrame'.landmarks) /\ ~effectPending') =>
             ~overlay'.isVisible]_vars

\* C10, amended: the same, for a last frame without an error field.
C10_OneTargetHidesUnlessError ==
    [][/\ (~overlay.isVisible /\ overlay'.isVisible) =>
             (last'.op = "effect" /\ Both(app.landmarks))
       /\ ( /\ lastFrame' # Null
            /\ lastFrame'.error = Null
            /\ ExactlyOne(lastFrame'.landmarks)
            /\ ~effectPending' ) =>
             ~overlay'.isVisible]_vars

\* a frame with one target has hidden an overlay that had been Visible
C10_Witness ==
    /\ last.op = "effect"
    /\ lastFrame # Null
    /\ lastFrame.error = Null
    /\ ExactlyOne(lastFrame.landmarks)
    /\ ~overlay.isVisible
    /\ overlay.leftEarPos = ToRenderSpace(LeftA, Rat(16, 9))

----------------------------------------------------------------------------
(* Frames and the visibility flag *)

\* the frame is one App processes: an object whose error field is absent or
\* the empty string
Processed(frame) == frame # Null /\ ~Truthy(frame.error)

\* the visibility flag at the end of a run that received this frame and
\* nothing else
VisibleOf(frame) ==
    Effect(InitialOverlay, OnLandmarks(InitialApp, frame).landmarks, Null).isVisible

\* the flag changes only when the effect runs, and the landmarks the effect
\* reads are changed by frames only
FlagChangedByFramesOnly ==
    /\ overlay'.isVisible # overlay.isVisible => last'.op = "effect"
    /\ app'.landmarks # app.landmarks => last'.op = "message"

\* C11, as stated: once the effect has run, the visibility flag is the one of
\* the run that received the last frame alone, whatever came before it; and no
\* step other than the processing of a frame changes the flag.
C11_PureOfLastFrame ==
    [][/\ (lastFrame' # Null /\ ~effectPending') =>
             overlay'.isVisible = VisibleOf(lastFrame')
       /\ FlagChangedByFramesOnly]_vars

\* C11, amended: the same for the last frame App processed (a frame with a
\* non-empty error field is not processed and leaves the landmarks as they
\* were): once the effect has run the flag tells whether the stored landmarks
\* carry both targets, a processed frame stores its own landmarks, and every
\* other step leaves the stored landmarks alone.
C11_PureOfLastProcessedFrame ==
    [][/\ (Processed(lastFrame') /\ ~effectPending') =>
             overlay'.isVisible = VisibleOf(lastFrame')
       /\ ~effectPending' => overlay'.isVisible = Both(app'.landmarks)
       /\ IF /\ last'.op = "message"
             /\ JSONParse(last'.arg).ok
             /\ Processed(JSONParse(last'.arg).value)
          THEN app'.landmarks = JSONParse(last'.arg).value.landmarks
          ELSE app'.landmarks = app.landmarks
       /\ FlagChangedByFramesOnly]_vars

\* a frame without landmarks has hidden an overlay that an earlier frame had
\* made Visible after the video size was known
C11_Witness ==
    /\ last.op = "effect"
    /\ Processed(lastFrame)
    /\ lastFrame.landmarks = Null
    /\ ~overlay.isVisible
    /\ app.videoSize # Null
    /\ overlay.leftEarPos = ToRenderSpace(LeftB, Rat(1, 1))

\* what an error frame must leave alone: the stored landmarks, fps and
\* face-detected status, the visibility flag and both poses, and the effect
KeepsLastGood ==
    /\ app'.landmarks = app.landmarks
    /\ app'.fps = app.fps
    /\ app'.faceDetected = app.faceDetected
    /\ overlay' = overlay
    /\ effectPending' = effectPending

\* C12, as stated: a frame that carries an error field sets the reported
\* backend error to it (an empty error string reads as no error reported, as
\* the status display shows it) and leaves the stored landmarks, the visibility
\* flag, both poses, the fps and the face-detected status as they were.
C12_ErrorFrameKeepsPose ==
    [][( /\ last'.op = "message"
         /\ JSONParse(last'.arg).ok
         /\ JSONParse(last'.arg).value # Null
         /\ JSONParse(last'.arg).value.error # Null ) =>
           /\ IF Truthy(JSONParse(last'.arg).value.error)
              THEN app'.backendError = JSONParse(last'.arg).value.error
              ELSE ~Truthy(app'.backendError)
           /\ KeepsLastGood]_vars

\* C12, amended: the same for a frame whose error field is a non-empty string.
C12_NonEmptyErrorKeepsPose ==
    [][( /\ last'.op = "message"
         /\ JSONParse(last'.arg).ok
         /\ JSONParse(last'.arg).value # Null
         /\ Truthy(JSONParse(last'.arg).value.error) ) =>
           /\ app'.backendError = JSONParse(last'.arg).value.error
           /\ KeepsLastGood]_vars

\* an error frame without landmarks, received while the overlay shows the
\* pose of the last good frame
C12_Witness ==
    /\ last.op = "message"
    /\ lastFrame = Frame(Null, 0, FALSE, Str("camera error"))
    /\ app.backendError = Str("camera error")
    /\ app.landmarks = BothARot
    /\ app.fps = 30
    /\ app.faceDetected
    /\ ~effectPending
    /\ overlay.isVisible
    /\ overlay.leftEarPos = ToRenderSpace(LeftA, Rat(16, 9))
    /\ overlay.faceRotation = <<20, 10, 4>>

----------------------------------------------------------------------------
(* Rotation and pose of the rendered earrings *)

RotationOf(rot) == <<rot.pitch, rot.yaw, rot.roll>>

\* C13: every run of the effect on landmarks with both targets renders both
\* earrings with the rotation of these landmarks when they carry face_rotation,
\* and with the rotation rendered before (the one of the last landmarks that
\* carried it, not zero) when they do not.
C13_RotationHeld ==
    [][(last'.op = "effect" /\ Both(app.landmarks)) =>
          LET shown == IF app.landmarks.face_rotation # Null
                       THEN RotationOf(app.landmarks.face_rotation)
                       ELSE overlay.faceRotation
          IN  /\ Len(Render(overlay')) = 2
              /\ Render(overlay')[1].rotation = LeftRotation(shown)
              /\ Render(overlay')[2].rotation = RightRotation(shown)]_vars

\* a frame without face_rotation rendered with the rotation of an earlier
\* frame, at its own positions
C13_Witness ==
    /\ last.op = "effect"
    /\ app.landmarks = BothA
    /\ Len(Render(overlay)) = 2
    /\ Render(overlay)[1].position = ToRenderSpace(LeftA, Rat(16, 9))
    /\ Render(overlay)[1].rotation = LeftRotation(RotationOf(RotB))
    /\ Render(overlay)[2].rotation = RightRotation(RotationOf(RotB))

\* the aspect ratios the effect can have used
Aspects == { Rat(16, 9), Aspect(app.videoSize) }

\* C14: while the overlay is Hidden nothing is rendered for either target, and
\* an earring that is rendered is at the transform of its target's point in the
\* stored landmarks.
C14_NoStalePose ==
    /\ ~overlay.isVisible => Render(overlay) = <<>>
    /\ \A i \in 1 .. Len(Render(overlay)) :
          /\ Both(app.landmarks)
          /\ \E aspect \in Aspects :
                Render(overlay)[i].position =
                    ToRenderSpace(app.landmarks[Render(overlay)[i].target], aspect)

----------------------------------------------------------------------------
(* Object provisioning *)

Rendered == RenderModels(overlay, selectedJewelry, modelError, assets)

\* both earrings are the procedural one: hoop and accent, and no model asked for
BothProcedural(r) ==
    /\ Len(r) = 2
    /\ \A i \in 1 .. 2 :
          /\ r[i].kind = "procedural"
          /\ r[i].geometry = <<"torus", "sphere">>
          /\ r[i].requests = Null

\* the step starts no load of a model
NoLoadStarted ==
    \A p \in ModelPaths : assets'[p] = "loading" => assets[p] = "loading"

\* C15: in every state a step leaves with the overlay Visible and the selected
\* descriptor without a model path, or no descriptor selected, or modelError
\* set, both earrings are rendered as the procedural earring, and the step has
\* started no load.
C15_FallbackWithoutAsset ==
    [][( /\ overlay'.isVisible
         /\ (~Truthy(ModelPath(selectedJewelry')) \/ modelError') ) =>
           /\ BothProcedural(Rendered')
           /\ NoLoadStarted]_vars

\* a descriptor with a model path rendered as the procedural earring, in the
\* descriptor's colour and scale, after its load failed
C15_Witness ==
    /\ overlay.isVisible
    /\ selectedJewelry = SilverStuds
    /\ modelError
    /\ assets[SilverStuds.modelPath] = "failed"
    /\ Rendered[1].kind = "procedural"
    /\ Rendered[1].color = Str("#C0C0C0")
    /\ Rendered[2].scale = 12

\* C16: a model whose load has not failed is asked for whenever the overlay is
\* Visible with its descriptor selected, whatever other model failed before;
\* and a model whose load failed is rendered as the procedural earring.
C16_ErrorPerDescriptor ==
    (overlay.isVisible /\ Truthy(ModelPath(selectedJewelry))) =>
        IF assets[ModelPath(selectedJewelry)] = "failed"
        THEN BothProcedural(Rendered)
        ELSE /\ Len(Rendered) = 2
             /\ \A i \in 1 .. 2 :
                   /\ Rendered[i].kind \in {"model", "loading"}
                   /\ Rendered[i].requests = ModelPath(selectedJewelry)

\* C17: a model whose load failed stays failed (no step asks for it again),
\* and whenever the overlay is Visible with its descriptor selected both
\* earrings are rendered as the procedural earring.
C17_FailedStaysFallback ==
    [][\A p \in ModelPaths :
          /\ assets[p] = "failed" => assets'[p] = "failed"
          /\ ( /\ assets'[p] = "failed"
               /\ overlay'.isVisible
               /\ ModelPath(selectedJewelry') = p ) => BothProcedural(Rendered')]_vars

\* the second frame rendered for the descriptor after the load of its model
\* failed, the overlay having been Hidden and the other model loaded in between
C17_Witness ==
    /\ last.op = "effect"
    /\ sinceError = 2
    /\ selectedJewelry = GoldHoops
    /\ assets[GoldHoops.modelPath] = "failed"
    /\ assets[SilverStuds.modelPath] = "loaded"
    /\ overlay.isVisible
    /\ overlay.leftEarPos = ToRenderSpace(LeftB, Rat(16, 9))
    /\ BothProcedural(Rendered)

\* C18: in every Visible state each target is rendered as exactly one of the
\* model, the loading earring or the procedural earring, at the target's
\* position; and while the model of the selected descriptor is loading, each
\* target is rendered as the loading earring.
C18_PlaceholderWhileLoading ==
    overlay.isVisible =>
        /\ Len(Rendered) = 2
        /\ Rendered[1].position = overlay.leftEarPos
        /\ Rendered[2].position = overlay.rightEarPos
        /\ \A i \in 1 .. 2 : Rendered[i].kind \in {"model", "loading", "procedural"}
        /\ ( /\ Truthy(ModelPath(selectedJewelry))
             /\ assets[ModelPath(selectedJewelry)] = "loading" ) =>
               \A i \in 1 .. 2 : Rendered[i].kind = "loading"

----------------------------------------------------------------------------
(* Positions *)

\* ((1 - 2x) * aspect, 1 - 2y, 2z) for a point in tenths
ExpectedPosition(p, aspect) ==
    << Rat((10 - 2 * p.x) * aspect[1], 10 * aspect[2]),
       Rat(10 - 2 * p.y, 10),
       Rat(p.z, 5) >>

\* C19: every run of the effect that leaves the overlay Visible leaves each
\* target at (-(x*2-1)*aspect, -(y*2-1), z*2) of its own point, aspect being
\* width / height of the video, or 16/9 before the size is known; for
\* left_ear (0.3, 0.4, 0.1), right_ear (0.7, 0.4, 0.1) and aspect 1 it leaves
\* the overlay Visible, the left target at (0.4, 0.2, 0.2) and the right one
\* at (-0.4, 0.2, 0.2).
C19_PositionFormula ==
    [][last'.op = "effect" =>
          /\ overlay'.isVisible =>
                /\ Both(app.landmarks)
                /\ overlay'.leftEarPos =
                     ExpectedPosition(app.landmarks.left_ear, Aspect(app.videoSize))
                /\ overlay'.rightEarPos =
                     ExpectedPosition(app.landmarks.right_ear, Aspect(app.videoSize))
          /\ ( /\ Both(app.landmarks)
               /\ app.landmarks.left_ear = Pt(3, 4, 1)
               /\ app.landmarks.right_ear = Pt(7, 4, 1)
               /\ Aspect(app.videoSize) = Rat(1, 1) ) =>
                /\ overlay'.isVisible
                /\ overlay'.leftEarPos = <<Rat(4, 10), Rat(2, 10), Rat(2, 10)>>
                /\ overlay'.rightEarPos = <<Rat(-4, 10), Rat(2, 10), Rat(2, 10)>>]_vars

\* the frame of the scenario, rendered for a square video
C19_Witness ==
    /\ last.op = "effect"
    /\ lastFrame = Frame(BothA, 30, TRUE, Null)
    /\ app.landmarks = BothA
    /\ app.videoSize # Null
    /\ app.videoSize.width = app.videoSize.height
    /\ overlay.isVisible
    /\ overlay.leftEarPos = <<Rat(2, 5), Rat(1, 5), Rat(1, 5)>>
    /\ overlay.rightEarPos = <<Rat(-2, 5), Rat(1, 5), Rat(1, 5)>>

\* a <= b, for rationals
Leq(a, b) == a[1] * b[2] <= b[1] * a[2]

Neg(a) == <<-a[1], a[2]>>

\* C20: for a point with x and y in [0, 1] and the aspect of any video size,
\* the x of the position lies in [-aspect, aspect] and its y in [-1, 1];
\* x = 0 gives aspect, x = 1 gives -aspect, y = 0 gives 1 and y = 1 gives -1.
C20_PositionBounds ==
    samplePosition # Null =>
        LET aspect == Aspect(sample.videoSize)
            p == sample.point
        IN  /\ Leq(Rat(0, 1), aspect) /\ aspect # Rat(0, 1)
            /\ Leq(Neg(aspect), samplePosition[1])
            /\ Leq(samplePosition[1], aspect)
            /\ Leq(Rat(-1, 1), samplePosition[2])
            /\ Leq(samplePosition[2], Rat(1, 1))
            /\ p.x = 0 => samplePosition[1] = aspect
            /\ p.x = 10 => samplePosition[1] = Neg(aspect)
            /\ p.y = 0 => samplePosition[2] = Rat(1, 1)
            /\ p.y = 10 => samplePosition[2] = Rat(-1, 1)

\* the top left corner of a 640 x 480 video
C20_Witness ==
    /\ last.op = "transform"
    /\ sample.point.x = 0
    /\ sample.point.y = 0
    /\ sample.videoSize # Null
    /\ sample.videoSize.width = 640
    /\ samplePosition[1] = Rat(4, 3)
    /\ samplePosition[2] = Rat(1, 1)

----------------------------------------------------------------------------
(* Damping and mirroring of the rendered rotation *)

\* C21: while the overlay is Visible with held rotation (pitch, yaw, roll), the
\* left earring is rendered with rotation (pitch / 2, yaw / 2, roll) and the
\* right one with (pitch / 2, pi + yaw / 2, -roll): the two share the pitch
\* component, their yaw components differ by exactly pi and their roll
\* components are negations of each other.
C21_MirroredRotation ==
    overlay.isVisible =>
        LET r == Render(overlay)
            pitch == overlay.faceRotation[1]
            yaw == overlay.faceRotation[2]
            roll == overlay.faceRotation[3]
        IN  /\ Len(r) = 2
            /\ r[1].target = "left_ear"
            /\ r[2].target = "right_ear"
            /\ r[1].rotation =
                 <<[pi |-> 0, rad |-> Rat(pitch, 2)],
                   [pi |-> 0, rad |-> Rat(yaw, 2)],
                   [pi |-> 0, rad |-> Rat(roll, 1)]>>
            /\ r[2].rotation =
                 <<[pi |-> 0, rad |-> Rat(pitch, 2)],
                   [pi |-> 1, rad |-> Rat(yaw, 2)],
                   [pi |-> 0, rad |-> Rat(-roll, 1)]>>
            /\ r[1].rotation[1] = r[2].rotation[1]
            /\ r[2].rotation[2].pi - r[1].rotation[2].pi = 1
            /\ r[2].rotation[2].rad = r[1].rotation[2].rad
            /\ r[2].rotation[3].pi = 0 /\ r[1].rotation[3].pi = 0
            /\ r[2].rotation[3].rad = Neg(r[1].rotation[3].rad)

\* the rotation (-0.1, 0.3, -0.06) of a frame, rendered damped and mirrored
C21_Witness ==
    /\ ~effectPending
    /\ overlay.isVisible
    /\ app.landmarks = Lm(LeftB, RightB, RotB)
    /\ overlay.faceRotation = <<-10, 30, -6>>
    /\ Render(overlay)[1].rotation =
         <<Angle(0, Rat(-5, 1)), Angle(0, Rat(15, 1)), Angle(0, Rat(-6, 1))>>
    /\ Render(overlay)[2].rotation =
         <<Angle(0, Rat(-5, 1)), Angle(1, Rat(15, 1)), Angle(0, Rat(6, 1))>>

----------------------------------------------------------------------------
(* The selected descriptor *)

\* the asset path, scale and fallback colour provisioning works with, given
\* the selectedJewelry the overlay received
Provisioned(j) ==
    [modelPath |-> ModelPath(j), scale |-> JewelryScale(j), color |-> JewelryColor(j)]

\* C22: once a descriptor has been selected, provisioning works with the asset
\* path, scale and colour of the descriptor selected last; before any selection
\* it works with no asset path, scale 1.5 and colour #FFD700.
C22_UsesSelected ==
    Provisioned(selectedJewelry) =
        IF app.selectedJewelry = Null
        THEN [modelPath |-> Null, scale |-> 15, color |-> Str("#FFD700")]
        ELSE [modelPath |-> app.selectedJewelry.modelPath,
              scale |-> app.selectedJewelry.scale,
              color |-> app.selectedJewelry.color]

----------------------------------------------------------------------------
(* Connection events and the overlay *)

\* C23: a close (with its connected(false) and maxReconnectAttemptsReached), a
\* transport error, the firing of a reconnect timer and disconnect() leave the
\* stored landmarks, the visibility flag, both poses and the effect as they
\* were; and while a reconnect is pending, once the effect has run, the
\* overlay is in the state the effect produces from the stored landmarks.
C23_ConnectionEventsKeepPose ==
    [][/\ last'.op \in {"close", "error", "timer", "disconnect"} =>
             /\ app'.landmarks = app.landmarks
             /\ app'.videoSize = app.videoSize
             /\ overlay' = overlay
             /\ effectPending' = effectPending
       /\ (timers' # <<>> /\ ~effectPending') =>
             /\ overlay' = Effect(overlay', app'.landmarks, app'.videoSize)
             /\ overlay'.isVisible = Both(app'.landmarks)]_vars

\* the connection closed under a Visible overlay: the reconnect is pending and
\* the earrings stay at the pose of the last frame
C23_Witness ==
    /\ last.op = "close"
    /\ timers # <<>>
    /\ ~app.isConnected
    /\ ~effectPending
    /\ app.landmarks = BothARot
    /\ overlay.isVisible
    /\ overlay.leftEarPos = ToRenderSpace(LeftA, Rat(16, 9))
    /\ overlay.rightEarPos = ToRenderSpace(RightA, Rat(16, 9))
    /\ overlay.faceRotation = <<20, 10, 4>>

----------------------------------------------------------------------------
(* The retry loop ends with an event *)

\* some event of es is maxReconnectAttemptsReached
EmitsMaxReached(es) ==
    \E i \in 1 .. Len(es) : es[i].event = "maxReconnectAttemptsReached"

\* a reconnect timer that is pending can always create its socket
RetryWithinBound == timers # <<>> => Len(readyState) < RetrySockets

----------------------------------------------------------------------------
(* maxReconnectAttemptsReached and disconnect() *)

\* C25: a close emits maxReconnectAttemptsReached only when the five
\* reconnects of the budget were scheduled since the last open, and the close
\* of a connection that disconnect() closed emits no
\* maxReconnectAttemptsReached and schedules no reconnect.
C25_MaxOnlyAfterBudget ==
    [][/\ EmitsMaxReached(emitted') =>
             (last'.op = "close" /\ Len(schedLog) = maxReconnectAttempts)
       /\ (last'.op = "close" /\ readyState[last'.sock] = "closing") =>
             (~EmitsMaxReached(emitted') /\ timers' = timers)]_vars

----------------------------------------------------------------------------
(* The order of the events of a close *)

\* C26: every close emits exactly one connected(false), as its first event:
\* its observers find the counter, the delay and the pending timers as they
\* were before the close, so the reconnect is scheduled after it, and a
\* maxReconnectAttemptsReached of the close comes after it.
C26_ConnectedFalseFirst ==
    [][last'.op = "close" =>
          /\ Len(emitted') >= 1
          /\ emitted'[1].event = "connected"
          /\ emitted'[1].status = FALSE
          /\ \A i \in 2 .. Len(emitted') : emitted'[i].event # "connected"
          /\ emitted'[1].attempts = reconnectAttempts
          /\ emitted'[1].delay = reconnectDelay
          /\ emitted'[1].pending = Len(timers)
          /\ Len(timers') \in {Len(timers), Len(timers) + 1}
          /\ ~app'.isConnected]_vars

\* the third close in a row: connected(false) emitted with two reconnects
\* counted, before the third is scheduled
C26_Witness ==
    /\ last.op = "close"
    /\ ~discSinceOpen
    /\ Len(emitted) = 1
    /\ emitted[1].event = "connected"
    /\ emitted[1].attempts = 2
    /\ emitted[1].delay = 4000
    /\ reconnectAttempts = 3
    /\ reconnectDelay = 8000
    /\ Len(timers) = emitted[1].pending + 1

----------------------------------------------------------------------------
(* The aspect and the video-dimension notification *)

\* 16/9 before a notification was stored, width / height of the last one after
AspectInUse ==
    IF app.videoSize = Null THEN Rat(16, 9)
    ELSE Rat(app.videoSize.width, app.videoSize.height)

\* C27: the stored video size is null until a notification stores its
\* {width, height}; every run of the effect that leaves the overlay Visible
\* computes both positions with 16/9 while it is null and with width / height
\* afterwards; a notification leaves the stored landmarks alone and makes the
\* effect run again, so that once it has run a Visible overlay has both
\* targets at the transform of the stored landmarks with the new aspect.
C27_AspectFollowsVideoSize ==
    [][/\ app'.videoSize # app.videoSize => last'.op = "videoReady"
       /\ last'.op = "videoReady" =>
             /\ app'.videoSize = last'.arg
             /\ app'.landmarks = app.landmarks
             /\ effectPending'
       /\ (last'.op = "effect" /\ overlay'.isVisible) =>
             /\ overlay'.leftEarPos = ExpectedPosition(app.landmarks.left_ear, AspectInUse)
             /\ overlay'.rightEarPos = ExpectedPosition(app.landmarks.right_ear, AspectInUse)
       /\ (~effectPending' /\ overlay'.isVisible) =>
             /\ overlay'.leftEarPos = ExpectedPosition(app'.landmarks.left_ear, AspectInUse')
             /\ overlay'.rightEarPos = ExpectedPosition(app'.landmarks.right_ear, AspectInUse')]_vars

\* the notification of a square video arrives while the overlay is Visible at
\* positions computed with 16/9: the effect is due again, on the same landmarks
C27_Witness ==
    /\ last.op = "videoReady"
    /\ app.videoSize = [k |-> "size", width |-> 720, height |-> 720]
    /\ effectPending
    /\ app.landmarks = BothA
    /\ overlay.isVisible
    /\ overlay.leftEarPos = ExpectedPosition(LeftA, Rat(16, 9))
    /\ overlay.rightEarPos = ExpectedPosition(RightA, Rat(16, 9))

----------------------------------------------------------------------------
(* The reported error after maxReconnectAttemptsReached *)

\* the step delivers a frame App processes: one without a non-empty error
ErrorFreeFrame ==
    /\ last'.op = "message"
    /\ JSONParse(last'.arg).ok
    /\ Processed(JSONParse(last'.arg).value)

\* C28: from maxReconnectAttemptsReached until a connection opens, the
\* reported error is the one of the event, whatever errors and closes follow;
\* no connection opens and no frame arrives before connect() is called again;
\* and the reported error is cleared only by a step that emits connected(true)
\* or delivers an error-free frame.
C28_ErrorPersists ==
    [][/\ sinceMax' # 0 => app'.backendError = CannotConnect
       /\ sinceMax = 1 => last'.op \notin {"open", "message"}
       /\ (Truthy(app.backendError) /\ ~Truthy(app'.backendError)) =>
             (EmitsConnected(emitted', TRUE) \/ ErrorFreeFrame)
       /\ (app.backendError = CannotConnect /\ last'.op \in {"error", "close"}) =>
             app'.backendError = CannotConnect]_vars

\* the connection of an explicit reconnect had an error and closed: the event
\* is emitted a second time and the error reported all along
C28_Witness ==
    /\ last.op = "close"
    /\ connectCalls = 2
    /\ maxSinceOpen = 2
    /\ sinceMax = 1
    /\ ~discSinceOpen
    /\ app.backendError = CannotConnect
    /\ ~app.isConnected

----------------------------------------------------------------------------
(* One connection, one timer *)

\* C29: at any time at most one connection with the client's handlers is
\* connecting, open or closing, and at most one reconnect timer is pending.
C29_SingleConnection ==
    /\ Cardinality(Live) <= 1
    /\ Len(timers) <= 1

----------------------------------------------------------------------------
(* connect() and the counter *)

\* C30: connect(), called by the application or by a timer, leaves the counter
\* and the delay as they are; only an open lowers either, to 0 and 1000; so
\* when connect() was called after maxReconnectAttemptsReached, or after a
\* disconnect() that set the counter, and no connection has opened since, the
\* close of a connection that never opened emits maxReconnectAttemptsReached
\* and schedules no reconnect.
C30_ConnectKeepsCounter ==
    [][/\ last'.op \in {"connect", "timer"} =>
             UNCHANGED <<reconnectAttempts, reconnectDelay>>
       /\ (reconnectAttempts' < reconnectAttempts \/ reconnectDelay' < reconnectDelay) =>
             last'.op = "open"
       /\ last'.op = "open" =>
             (reconnectAttempts' = 0 /\ reconnectDelay' = BaseDelay)
       /\ ( /\ sinceMax = 2 \/ (discSinceOpen /\ ~sinceDisconnect)
            /\ last'.op = "close"
            /\ readyState[last'.sock] = "connecting" ) =>
             /\ EmitsMaxReached(emitted')
             /\ timers' = timers
             /\ UNCHANGED <<reconnectAttempts, reconnectDelay>>]_vars

\* connect() after a disconnect() that closed the first connection: the second
\* connection closes before it opens, and the event is all that follows
C30_Witness ==
    /\ last.op = "close"
    /\ last.sock = 2
    /\ last.attempts = maxReconnectAttempts
    /\ connectCalls = 2
    /\ discSinceOpen
    /\ ~sinceDisconnect
    /\ readyState = <<"closed", "closed">>
    /\ EmitsMaxReached(emitted)
    /\ timers = <<>>
    /\ reconnectDelay = BaseDelay

----------------------------------------------------------------------------
(* Range of the counter and the delay *)

RECURSIVE Pow2(_)
Pow2(n) == IF n = 0 THEN 1 ELSE 2 * Pow2(n - 1)

\* C31: in every reachable state the counter is between 0 and 5, the delay is
\* one of 1000, 2000, 4000, 8000, 16000, 30000, and the delay is
\* min(1000 * 2^n, 30000), n being the number of reconnects scheduled since the
\* last open (or since construction).
C31_CounterAndDelayRange ==
    /\ reconnectAttempts \in 0 .. 5
    /\ reconnectDelay \in {1000, 2000, 4000, 8000, 16000, 30000}
    /\ reconnectDelay = Min(1000 * Pow2(Len(schedLog)), 30000)

\* disconnect() after two scheduled reconnects: the counter is at the cap and
\* the delay is the one of two reconnects
C31_Witness ==
    /\ last.op = "disconnect"
    /\ reconnectAttempts = 5
    /\ Len(schedLog) = 2
    /\ reconnectDelay = 4000

----------------------------------------------------------------------------
(* When landmarks are delivered *)

\* some event of es is a landmarks event
EmitsLandmarks(es) == \E i \in 1 .. Len(es) : es[i].event = "landmarks"

\* C32: a landmarks event is delivered only while the last connected event was
\* connected(true), never after disconnect() has returned (until connect() is
\* called again) and never while a reconnect timer is pending.
C32_LandmarksWhileConnected ==
    [][EmitsLandmarks(emitted') =>
          /\ app.isConnected
          /\ ~sinceDisconnect
          /\ timers = <<>>]_vars

----------------------------------------------------------------------------
(* A connection that cannot be created *)

\* C33: a connect(), called by the application or by a reconnect timer, that
\* creates no connection emits exactly one event, an error, leaves the
\* counter, the delay, this.ws and every connection as they were, and
\* schedules no reconnect.
C33_CreateFailureReported ==
    [][(last'.op \in {"connect", "timer"} /\ Len(readyState') = Len(readyState)) =>
          /\ Len(emitted') = 1
          /\ emitted'[1].event = "error"
          /\ UNCHANGED <<reconnectAttempts, reconnectDelay, ws, readyState, app>>
          /\ Len(timers') = (IF last'.op = "timer" THEN Len(timers) - 1 ELSE Len(timers))]_vars

\* the connect() of the second reconnect created no connection: an error was
\* emitted, and nothing is in flight any more
C33_Witness ==
    /\ last.op = "timer"
    /\ Len(emitted) = 1
    /\ emitted[1].event = "error"
    /\ Len(readyState) = 2
    /\ Live = {}
    /\ timers = <<>>
    /\ reconnectAttempts = 2
    /\ reconnectDelay = 4000

----------------------------------------------------------------------------
(* The held rotation across Hidden intervals *)

\* the held rotation is changed by the effect only, and only by a run on
\* landmarks with both targets that carry face_rotation, which it takes
HeldRotationStep ==
    /\ last'.op # "effect" => overlay'.faceRotation = overlay.faceRotation
    /\ last'.op = "effect" =>
          overlay'.faceRotation =
              IF Both(app.landmarks) /\ app.landmarks.face_rotation # Null
              THEN RotationOf(app.landmarks.face_rotation)
              ELSE overlay.faceRotation

\* C34, as stated: the held rotation is changed only by frames that leave the
\* overlay Visible and carry face_rotation (frames that leave it Hidden never
\* change it), so a frame without face_rotation that returns the overlay to
\* Visible uses the rotation held before it was hidden; and a Visible overlay
\* has rotation (0, 0, 0) only if no frame has ever carried face_rotation.
C34_ZeroOnlyIfNeverCarried ==
    [][/\ HeldRotationStep
       /\ (last'.op = "effect" /\ overlay'.isVisible /\ overlay'.faceRotation = <<0, 0, 0>>) =>
             rotationSeen' = 0]_vars

\* C34, amended: the same, with rotation (0, 0, 0) only if no frame that left
\* the overlay Visible has ever carried face_rotation.
C34_ZeroOnlyIfNeverTaken ==
    [][/\ HeldRotationStep
       /\ (last'.op = "effect" /\ overlay'.isVisible /\ overlay'.faceRotation = <<0, 0, 0>>) =>
             rotationSeen' # 2
       /\ rotationSeen' = 2 => overlay'.faceRotation # <<0, 0, 0>>]_vars

\* a frame with one target and a face_rotation of its own has hidden the
\* overlay, which holds the rotation of the earlier frame
C34_Witness ==
    /\ last.op = "effect"
    /\ rotationSeen = 2
    /\ app.landmarks = Lm(LeftA, Null, RotA)
    /\ ~overlay.isVisible
    /\ overlay.leftEarPos = ToRenderSpace(LeftB, Rat(16, 9))
    /\ overlay.faceRotation = RotationOf(RotB)

----------------------------------------------------------------------------
(* C35 *)

\* the calls an emit() of data makes over the array cbs when it invokes every
\* element once, in order
CallsOf(cbs, data) == [i \in 1..Len(cbs) |-> [callback |-> cbs[i], data |-> data]]

\* C35: when an event is emitted, every handler registered for it is invoked
\* once per registration, in registration order, with the same payload: the
\* emit takes the array of the event as it is registered, keeps it and its
\* payload up to its return, calls its elements one by one, and returns only
\* after the last, a handler that throws included; no step of it changes the
\* connection, the counter or the delay of the client.
C35_EmitInvokesAll ==
    [][/\ last'.op = "emit" =>
            /\ emitting'.active =>
                 /\ emitting'.cbs = listeners[last'.arg.event].cbs
                 /\ emitting'.data = last'.arg.found
                 /\ emitting'.event = last'.arg.event
            /\ ~emitting'.active => listeners[last'.arg.event].cbs = <<>>
            /\ invoked' = <<>>
            /\ UNCHANGED clientVars
       /\ last'.op = "invoke" =>
            /\ emitting.active
            /\ invoked' = SubSeq(CallsOf(emitting.cbs, emitting.data), 1, emitting.idx)
            /\ emitting'.active =>
                 /\ emitting'.cbs = emitting.cbs
                 /\ emitting'.data = emitting.data
                 /\ emitting'.idx = emitting.idx + 1
            /\ ~emitting'.active => invoked' = CallsOf(emitting.cbs, emitting.data)
            /\ UNCHANGED clientVars
       /\ (emitting.active /\ last'.op \in {"on", "off"}) =>
            UNCHANGED <<emitting, invoked>>
      ]_vars

\* an emit of payload 2 has returned after it called f, g, which threw, and f
\* again, as landmarks has them registered
C35_Witness ==
    /\ last.op = "invoke"
    /\ last.arg.event = "landmarks"
    /\ ~emitting.active
    /\ listeners["landmarks"].cbs = <<"f", "g", "f">>
    /\ invoked = CallsOf(<<"f", "g", "f">>, 2)
    /\ Throws("g")

----------------------------------------------------------------------------
(* C36 *)

\* the registrations of the other callbacks in cbs, in their order
RECURSIVE Others(_, _)
Others(cbs, callback) ==
    IF cbs = <<>> THEN <<>>
    ELSE IF Head(cbs) = callback THEN Others(Tail(cbs), callback)
    ELSE <<Head(cbs)>> \o Others(Tail(cbs), callback)

\* off(event, handler) leaves no registration of the handler for the event,
\* keeps the other handlers of the event in their order, leaves the other
\* events as they are, and changes nothing when the handler has no
\* registration for the event
OffStep ==
    last'.op = "off" =>
        LET event == last'.arg.event
            callback == last'.arg.callback
        IN  /\ Count(listeners'[event].cbs, callback) = 0
            /\ Others(listeners'[event].cbs, callback) = Others(listeners[event].cbs, callback)
            /\ listeners'[event].registered = listeners[event].registered
            /\ \A other \in ListenerEvents \ {event} : listeners'[other] = listeners[other]
            /\ Count(listeners[event].cbs, callback) = 0 => listeners' = listeners
            /\ last'.arg.found = Count(listeners[event].cbs, callback)

\* C36, as stated: off(event, handler) removes every registration of that
\* handler for that event and nothing else, and afterwards the handler is
\* never invoked for that event: a handler is invoked for an event only while
\* it has a registration for it.
C36_NeverInvokedAfterOff ==
    [][/\ OffStep
       /\ last'.op = "invoke" =>
            Count(listeners[last'.arg.event].cbs, last'.arg.callback) > 0
      ]_vars

\* C36, amended: off(event, handler) removes every registration of that
\* handler for that event and nothing else, and the handler is not invoked for
\* that event by an emit that starts while it has no registration: an emit
\* invokes the handlers that had a registration for the event when it started,
\* and no other.
C36_NotInvokedByLaterEmits ==
    [][/\ OffStep
       /\ (last'.op = "emit" /\ emitting'.active) =>
            \A callback \in Callbacks :
                Count(emitting'.cbs, callback) = Count(listeners[last'.arg.event].cbs, callback)
       /\ last'.op = "invoke" =>
            /\ emitting.event = last'.arg.event
            /\ Count(emitting.cbs, last'.arg.callback) > 0
       /\ (emitting.active /\ emitting'.active) => emitting'.cbs = emitting.cbs
      ]_vars

\* off has removed the two registrations of a handler and left the one of the
\* other handler, while an emit of the event that started with all three has
\* handlers left to invoke
C36_Witness ==
    /\ last.op = "off"
    /\ last.arg.found = 2
    /\ Count(listeners[last.arg.event].cbs, last.arg.callback) = 0
    /\ Len(listeners[last.arg.event].cbs) = 1
    /\ emitting.active
    /\ emitting.event = last.arg.event
    /\ Len(emitting.cbs) = 3
    /\ \E i \in emitting.idx..Len(emitting.cbs) : emitting.cbs[i] = last.arg.callback

====
